---- MODULE Spec2Model ----
(***************************************************************************)
(* A model of the SNMP trap pipeline of aravinds44/snmp-trap-receiver:     *)
(*   - the Redis relay      (dev/snmptrapd/trap_handler.py),               *)
(*   - the Kafka relay      (src/snmptrapd/trap_handler.py),               *)
(*   - the Kafka consumer   (dev/trap-processor/trap_processor.py),        *)
(*   - the log-file consumer (trap-processor/trap_processor.py).           *)
(* Text is modelled as a sequence of one-character strings, so that the    *)
(* splitting, stripping and matching of the code are computed, not assumed.*)
(***************************************************************************)
EXTENDS Integers, Sequences, FiniteSets, TLC

\* ------------------------------------------------------------------ bounds

\* Relay invocations of one behaviour (each is its own process).
MaxInvocations == 2
\* The wall clock is read in ticks 0..MaxClock.
MaxClock == 1
\* REDIS_MAX_LIST_LENGTH (10000 by default), scaled down so that trimming happens.
MaxListLength == 1
\* How often a consumer process is stopped and started again.
MaxRestarts == 1
\* Entries written to the trap log.
MaxEntries == 2
\* Messages put in the topic by producers other than the relay.
MaxForeign == 1
\* Polls of the Kafka consumer that return an error.
MaxPollErrors == 1
MaxDataLines == 3

\* ------------------------------------------------------------------ text

IsSpace(c) == c \in {" ", "\t"}

IsDigit(c) == c \in {"0", "1", "2", "3", "4", "5", "6", "7", "8", "9"}

UpperToLower ==
  ("A" :> "a") @@ ("B" :> "b") @@ ("C" :> "c") @@ ("D" :> "d") @@ ("E" :> "e") @@
  ("F" :> "f") @@ ("G" :> "g") @@ ("H" :> "h") @@ ("I" :> "i") @@ ("J" :> "j") @@
  ("K" :> "k") @@ ("L" :> "l") @@ ("M" :> "m") @@ ("N" :> "n") @@ ("O" :> "o") @@
  ("P" :> "p") @@ ("Q" :> "q") @@ ("R" :> "r") @@ ("S" :> "s") @@ ("T" :> "t") @@
  ("U" :> "u") @@ ("V" :> "v") @@ ("W" :> "w") @@ ("X" :> "x") @@ ("Y" :> "y") @@
  ("Z" :> "z")

\* str.lower()
Lower(s) == [i \in 1..Len(s) |-> IF s[i] \in DOMAIN UpperToLower THEN UpperToLower[s[i]] ELSE s[i]]

RECURSIVE LStrip(_)
\* str.lstrip()
LStrip(s) == IF s # <<>> /\ IsSpace(Head(s)) THEN LStrip(Tail(s)) ELSE s

RECURSIVE RStrip(_)
\* str.rstrip()
RStrip(s) == IF s # <<>> /\ IsSpace(s[Len(s)]) THEN RStrip(SubSeq(s, 1, Len(s) - 1)) ELSE s

\* str.strip()
Strip(s) == LStrip(RStrip(s))

\* sub in s
Contains(s, sub) ==
  \E i \in 1..(Len(s) - Len(sub) + 1) : SubSeq(s, i, i + Len(sub) - 1) = sub

\* The least member of a non-empty set of integers.
Least(S) == CHOOSE i \in S : \A j \in S : i <= j

\* The greatest member of a non-empty set of integers.
Greatest(S) == CHOOSE i \in S : \A j \in S : j <= i

\* str.split(None, 1): at most two parts, split at the first run of whitespace;
\* leading whitespace is skipped and a part is never empty.
SplitOnce(line) ==
  LET a == LStrip(line)
      sp == {i \in 1..Len(a) : IsSpace(a[i])}
  IN IF a = <<>> THEN <<>>
     ELSE IF sp = {} THEN <<a>>
     ELSE LET i == Least(sp)
              rest == LStrip(SubSeq(a, i, Len(a)))
          IN IF rest = <<>> THEN <<SubSeq(a, 1, i - 1)>>
             ELSE <<SubSeq(a, 1, i - 1), rest>>

\* ------------------------------------------------------------------ program text constants

TRAP_OID_SYMBOLIC == <<"S", "N", "M", "P", "v", "2", "-", "M", "I", "B", ":", ":", "s", "n", "m", "p", "T", "r", "a", "p", "O", "I", "D", ".", "0">>
TRAP_OID_NUMERIC_NO_INSTANCE == <<".", "1", ".", "3", ".", "6", ".", "1", ".", "6", ".", "3", ".", "1", ".", "1", ".", "4", ".", "1">>
TRAP_OID_NUMERIC == <<".", "1", ".", "3", ".", "6", ".", "1", ".", "6", ".", "3", ".", "1", ".", "1", ".", "4", ".", "1", ".", "0">>
UPTIME_SYMBOLIC == <<"D", "I", "S", "M", "A", "N", "-", "E", "V", "E", "N", "T", "-", "M", "I", "B", ":", ":", "s", "y", "s", "U", "p", "T", "i", "m", "e", "I", "n", "s", "t", "a", "n", "c", "e">>
UPTIME_NUMERIC == <<".", "1", ".", "3", ".", "6", ".", "1", ".", "2", ".", "1", ".", "1", ".", "3", ".", "0">>
EAGLE_SEVERITY_MARKER == <<"e", "a", "g", "l", "e", "x", "g", "d", "s", "r", "a", "l", "a", "r", "m", "s", "e", "v", "e", "r", "i", "t", "y">>
S_critical == <<"c", "r", "i", "t", "i", "c", "a", "l">>
S_major == <<"m", "a", "j", "o", "r">>
S_minor == <<"m", "i", "n", "o", "r">>
S_info == <<"i", "n", "f", "o">>
S_clear == <<"c", "l", "e", "a", "r">>

\* ------------------------------------------------------------------ the notifications fed to the relays

HostA == <<"h", "a">>
HostB == <<"h", "b">>
Transport1 == <<"U", "D", "P", ":", " ", "[", "1", "0", ".", "0", ".", "0", ".", "5", "]", ":", "1", "6", "1", "-", ">">>
LineTrapOid == <<"S", "N", "M", "P", "v", "2", "-", "M", "I", "B", ":", ":", "s", "n", "m", "p", "T", "r", "a", "p", "O", "I", "D", ".", "0", " ", "I", "F", "-", "M", "I", "B", ":", ":", "l", "i", "n", "k", "D", "o", "w", "n", ".", "0">>
LineSeverity2 == <<"X", ":", ":", "e", "a", "g", "l", "e", "X", "g", "D", "s", "r", "A", "l", "a", "r", "m", "S", "e", "v", "e", "r", "i", "t", "y", ".", "0", " ", "2">>
LineNoSpace == <<"g", "a", "r", "b", "a", "g", "e">>

\* What the monitoring agent writes to a handler's standard input: no line at
\* all, or a host line, a transport line and data lines.
Notifications ==
  { <<>>,
    <<HostA, Transport1, LineTrapOid, LineSeverity2>>,
    <<HostB, Transport1, LineNoSpace>> }

\* ------------------------------------------------------------------ dev/snmptrapd/trap_handler.py: pure parts

\* The severity map of get_trap_severity.
SeverityMap ==
  (<<"1">> :> S_critical) @@ (<<"2">> :> S_major) @@ (<<"3">> :> S_minor) @@
  (<<"4">> :> S_info) @@ (<<"5">> :> S_clear) @@
  (S_critical :> S_critical) @@ (S_major :> S_major) @@ (S_minor :> S_minor) @@
  (S_info :> S_info) @@ (S_clear :> S_clear)

\* get_trap_severity with the indicator looked up as given, not lowered.
get_trap_severity_case_sensitive(trap_oid, eagle_severity) ==
  IF eagle_severity # <<>>
  THEN IF eagle_severity \in DOMAIN SeverityMap
       THEN SeverityMap[eagle_severity]
       ELSE S_info
  ELSE S_info

\* SNMPTrapHandler.get_trap_severity
get_trap_severity(trap_oid, eagle_severity) ==
  IF eagle_severity # <<>>
  THEN IF Lower(eagle_severity) \in DOMAIN SeverityMap
       THEN SeverityMap[Lower(eagle_severity)]
       ELSE S_info
  ELSE S_info

\* The match of r'UDP:\s*\[([^\]]+)\]:\d+->' that starts at i: <<group 1>>, or <<>>.
MatchUdpAt(s, i) ==
  LET n == Len(s)
      afterUdp == i + 4
      nonSpace == {j \in afterUdp..n : ~IsSpace(s[j])}
  IN IF i + 3 > n \/ SubSeq(s, i, i + 3) # <<"U", "D", "P", ":">> \/ nonSpace = {} THEN <<>>
     ELSE LET open == Least(nonSpace)
              closes == {k \in (open + 1)..n : s[k] = "]"}
          IN IF s[open] # "[" \/ closes = {} THEN <<>>
             ELSE LET close == Least(closes)
                      nonDigit == {m \in (close + 2)..n : ~IsDigit(s[m])}
                  IN IF close = open + 1 \/ close + 1 > n \/ s[close + 1] # ":" \/ nonDigit = {}
                     THEN <<>>
                     ELSE LET dash == Least(nonDigit)
                          IN IF dash = close + 2 \/ dash + 1 > n
                                \/ SubSeq(s, dash, dash + 1) # <<"-", ">">>
                             THEN <<>>
                             ELSE <<SubSeq(s, open + 1, close - 1)>>

\* The end of the maximal run of digits that starts at i (i - 1 when there is none).
DigitsEnd(s, i) ==
  LET stops == {j \in i..Len(s) : ~IsDigit(s[j])}
  IN IF stops = {} THEN Len(s) ELSE Least(stops) - 1

\* The match of r'(\d+\.\d+\.\d+\.\d+)' that starts at i: <<group 1>>, or <<>>.
MatchIpAt(s, i) ==
  LET n == Len(s)
      e1 == DigitsEnd(s, i)
      e2 == DigitsEnd(s, e1 + 2)
      e3 == DigitsEnd(s, e2 + 2)
      e4 == DigitsEnd(s, e3 + 2)
      dot(k) == k <= n /\ s[k] = "."
  IN IF e1 >= i /\ dot(e1 + 1) /\ e2 >= e1 + 2 /\ dot(e2 + 1)
        /\ e3 >= e2 + 2 /\ dot(e3 + 1) /\ e4 >= e3 + 2
     THEN <<SubSeq(s, i, e4)>>
     ELSE <<>>

\* SNMPTrapHandler.parse_transport_info: re.search takes the leftmost match.
parse_transport_info(transport_line) ==
  LET udp == {i \in 1..Len(transport_line) : MatchUdpAt(transport_line, i) # <<>>}
      ip == {i \in 1..Len(transport_line) : MatchIpAt(transport_line, i) # <<>>}
  IN IF udp # {} THEN MatchUdpAt(transport_line, Least(udp))[1]
     ELSE IF ip # {} THEN MatchIpAt(transport_line, Least(ip))[1]
     ELSE <<>>

\* parse_oid_value_line that takes a line of one part as an identifier with an
\* empty value.
parse_oid_value_line_lenient(line) ==
  LET parts == SplitOnce(line)
  IN IF Len(parts) = 2 THEN <<Strip(parts[1]), RStrip(parts[2])>>
     ELSE IF Len(parts) = 1 THEN <<Strip(parts[1]), <<>>>>
     ELSE <<>>

\* SNMPTrapHandler.parse_oid_value_line: <<oid, value>>, or <<>> for None.
parse_oid_value_line(line) ==
  LET parts == SplitOnce(line)
  IN IF Len(parts) = 2 THEN <<Strip(parts[1]), RStrip(parts[2])>> ELSE <<>>

\* re.sub(r'.*::', '', value): the greedy match ends at the last "::".
StripNamespace(value) ==
  LET at == {i \in 1..(Len(value) - 1) : value[i] = ":" /\ value[i + 1] = ":"}
  IN IF at = {} THEN value ELSE SubSeq(value, Greatest(at) + 2, Len(value))

\* re.sub(r'\.0$', '', name)
StripInstance(name) ==
  IF Len(name) >= 2 /\ SubSeq(name, Len(name) - 1, Len(name)) = <<".", "0">>
  THEN SubSeq(name, 1, Len(name) - 2)
  ELSE name

\* The trap name of process_trap, lines 319-320.
TrapName(value) == StripInstance(StripNamespace(value))

\* What process_trap knows before the first data line.
ScanStart ==
  [varbinds |-> <<>>, trap_oid |-> <<>>, trap_name |-> <<>>, uptime |-> <<>>,
   eagle_severity |-> <<>>]

\* ScanLine with the first severity varbind kept: a later one does not replace it.
ScanLineKeepsFirst(acc, line) ==
  LET ov == parse_oid_value_line(line)
  IN IF ov = <<>> THEN acc
     ELSE LET oid == ov[1]
              value == ov[2]
              withVarbind == [acc EXCEPT !.varbinds = Append(@, [oid |-> oid, value |-> value])]
          IN IF oid \in {TRAP_OID_SYMBOLIC, TRAP_OID_NUMERIC}
             THEN [withVarbind EXCEPT !.trap_oid = value, !.trap_name = TrapName(value)]
             ELSE IF oid \in {UPTIME_SYMBOLIC, UPTIME_NUMERIC}
             THEN [withVarbind EXCEPT !.uptime = value]
             ELSE IF Contains(Lower(oid), EAGLE_SEVERITY_MARKER) /\ acc.eagle_severity = <<>>
             THEN [withVarbind EXCEPT !.eagle_severity = value]
             ELSE withVarbind

\* One data line of process_trap's loop (line_num >= 3).
ScanLine(acc, line) ==
  LET ov == parse_oid_value_line(line)
  IN IF ov = <<>> THEN acc
     ELSE LET oid == ov[1]
              value == ov[2]
              withVarbind == [acc EXCEPT !.varbinds = Append(@, [oid |-> oid, value |-> value])]
          IN IF oid \in {TRAP_OID_SYMBOLIC, TRAP_OID_NUMERIC}
             THEN [withVarbind EXCEPT !.trap_oid = value, !.trap_name = TrapName(value)]
             ELSE IF oid \in {UPTIME_SYMBOLIC, UPTIME_NUMERIC}
             THEN [withVarbind EXCEPT !.uptime = value]
             ELSE IF Contains(Lower(oid), EAGLE_SEVERITY_MARKER)
             THEN [withVarbind EXCEPT !.eagle_severity = value]
             ELSE withVarbind

RECURSIVE ScanLines(_, _)
\* process_trap's loop over the data lines, in order.
ScanLines(acc, lines) ==
  IF lines = <<>> THEN acc ELSE ScanLines(ScanLine(acc, Head(lines)), Tail(lines))

\* The trap_data that process_trap builds from a non-empty input read at time now.
BuildTrapData(lines, now) ==
  LET host == lines[1]
      transport == IF Len(lines) >= 2 THEN lines[2] ELSE <<>>
      source_ip == IF Len(lines) >= 2 THEN parse_transport_info(lines[2]) ELSE <<>>
      scan == ScanLines(ScanStart, SubSeq(lines, 3, Len(lines)))
  IN [timestamp |-> now,
      level |-> "INFO",
      message |-> "SNMP trap received",
      trap |-> [host |-> host,
                source_ip |-> source_ip,
                transport |-> transport,
                oid |-> scan.trap_oid,
                name |-> scan.trap_name,
                severity |-> get_trap_severity(scan.trap_oid, scan.eagle_severity),
                uptime |-> scan.uptime,
                varbind_count |-> Len(scan.varbinds)],
      varbinds |-> scan.varbinds,
      metadata |-> [handler_version |-> "2.0", processed_lines |-> Len(lines)]]

\* ------------------------------------------------------------------ state

VARIABLES
  clock,          \* the wall clock, in ticks of the timestamp's resolution
  rpc,            \* Redis relay: where each handler process is
  rstdin,         \* the lines on its standard input
  redis_client,   \* self.redis_client is set (TRUE) or None (FALSE)
  trap_data,      \* the trap_data it built: <<>> or <<trap_data>>
  trap_id,        \* the trap_id it generated: <<>> or <<id>>
  applied,        \* whether the sink took its transaction
  stored,         \* what store_trap_in_redis returned
  exit_code,      \* its exit status, -1 while it runs
  sink_calls,     \* the requests it has made of the sink so far (pings and transactions)
  redis_hash,     \* the sink: trap_id -> event record (the keys snmp:trap:<id>)
  redis_list,     \* the sink: the index snmp:traps, newest first
  redis_stats,    \* the sink: the statistics record snmp:stats
  pushed,         \* every trap_id the sink's index was given, oldest first
  fallback_log,   \* /var/log/snmp/traps_fallback.log, one event per line
  error_log       \* the number of lines log_error wrote to trap_errors.log

relayVars ==
  <<clock, rpc, rstdin, redis_client, trap_data, trap_id, applied, stored, exit_code,
    sink_calls, redis_hash, redis_list, redis_stats, pushed, fallback_log, error_log>>

VARIABLES
  kstdin,          \* Kafka relay: the lines each handler process was given
  kexit,           \* its exit status, -1 before it has run
  kafka_topic,     \* the sink: the topic's one partition, oldest first
  kafka_fallback,  \* /var/log/snmp/kafka_trap_fallback.log, one event per line
  cpc,               \* Kafka consumer process: "down", "db_init" or "running"
  cexit,             \* the exit status of its last run, -1 before any run has ended
  consumer_conn,     \* self.consumer: "none", "open" or "closed"
  db_engine,         \* self.db_engine: "none", "connected" or "disposed"
  db_attempt,        \* _initialize_database: the attempts that failed so far
  sleeps,            \* _initialize_database: its waits so far, in seconds
  poll_errors,       \* the polls that returned an error: <<run, offset>> each
  consumer_offset,   \* the offset of the next message poll returns
  committed_offset,  \* the offset committed for group snmp-trap-processor: <<>> or <<n>>
  restarts,          \* how often the consumer process was stopped
  table,             \* the rows of snmp_traps, in insertion order
  failed_log,        \* /app/logs/failed_traps.log, one event per line
  handed,            \* every event handed to the Persister (_store_trap), in order
  store_failed,      \* the events whose insert raised
  processor_log      \* /app/logs/trap_processor.log: its last line ("" while it is empty)

kafkaVars ==
  <<kstdin, kexit, kafka_topic, kafka_fallback, cpc, cexit, consumer_conn, db_engine,
    db_attempt, sleeps, poll_errors, consumer_offset, committed_offset,
    restarts, table, failed_log, handed, store_failed, processor_log>>

VARIABLES
  trap_log,        \* Config.TRAP_LOG_FILE, as its lines
  written,         \* the writer: how many entries it began
  half_written,    \* the writer: how many lines of the entry it began are written, 0 when all are
  pending_events,  \* a file-modified event waits for the observer thread (inotify merges
                   \* equal events that are not yet read)
  last_position,   \* self.last_position: <<>> while the attribute is not set, else <<n>>
  lpc,             \* where each thread is in process_trap_log
  lseek,           \* the position it sought
  lcontent,        \* the content it read
  ltell,           \* what f.tell() returned
  lqueue,          \* the entries it has yet to store
  lrestarts,       \* how often the consumer process was restarted
  ltable,          \* the rows of snmp_traps: a table is a multiset, row -> how many
  lhanded          \* the entries handed to the Persister (store_trap) so far

logVars ==
  <<trap_log, written, half_written, pending_events, last_position, lpc, lseek, lcontent,
    ltell, lqueue, lrestarts, ltable, lhanded>>

VARIABLES
  call,      \* a function that was called by itself: <<>> or <<[fn, args]>>
  returned   \* what the call returned: <<>> or <<value>>

pureVars == <<call, returned>>

\* The main loop (main, lines 256-260) and the watchdog observer's thread, which
\* runs TrapLogHandler.on_modified (lines 240-242).
Threads == {"main", "observer"}

Invocations == 1..MaxInvocations

\* id(trap_data), the address of the dict in its handler process: two processes
\* may hold their dicts at the same address or at different ones.
Addrs == {"0x7f01", "0x7f02"}

\* How pipe.execute() can end: the transaction took effect and the reply came;
\* the server was not reached, or not within socket_timeout; the request was
\* sent but the reply did not come within socket_timeout, and the transaction
\* took effect; the server answered with an error.
PipeOutcomes == {"ok", "connection_error", "timeout_applied", "redis_error"}

RelayInit ==
  /\ clock = 0
  /\ rpc = [p \in Invocations |-> "new"]
  /\ rstdin = [p \in Invocations |-> <<>>]
  /\ redis_client = [p \in Invocations |-> FALSE]
  /\ trap_data = [p \in Invocations |-> <<>>]
  /\ trap_id = [p \in Invocations |-> <<>>]
  /\ applied = [p \in Invocations |-> FALSE]
  /\ stored = [p \in Invocations |-> FALSE]
  /\ exit_code = [p \in Invocations |-> -1]
  /\ sink_calls = [p \in Invocations |-> 0]
  /\ redis_hash = <<>>
  /\ redis_list = <<>>
  /\ redis_stats = [total_traps |-> 0, severity |-> <<>>, host |-> <<>>, last_trap_time |-> <<>>]
  /\ pushed = <<>>
  /\ fallback_log = <<>>
  /\ error_log = 0

KafkaInit ==
  /\ kstdin = [k \in Invocations |-> <<>>]
  /\ kexit = [k \in Invocations |-> -1]
  /\ kafka_topic = <<>>
  /\ kafka_fallback = <<>>
  /\ cpc = "down"
  /\ cexit = -1
  /\ consumer_conn = "none"
  /\ db_engine = "none"
  /\ db_attempt = 0
  /\ sleeps = <<>>
  /\ poll_errors = <<>>
  /\ consumer_offset = 0
  /\ committed_offset = <<>>
  /\ restarts = 0
  /\ table = <<>>
  /\ failed_log = <<>>
  /\ handed = <<>>
  /\ store_failed = {}
  /\ processor_log = ""

LogInit ==
  /\ trap_log = <<>>
  /\ written = 0
  /\ half_written = 0
  /\ pending_events = FALSE
  /\ last_position = <<>>
  /\ lpc = [t \in Threads |-> "idle"]
  /\ lseek = [t \in Threads |-> 0]
  /\ lcontent = [t \in Threads |-> <<>>]
  /\ ltell = [t \in Threads |-> 0]
  /\ lqueue = [t \in Threads |-> <<>>]
  /\ lrestarts = 0
  /\ ltable = <<>>
  /\ lhanded = {}

\* ------------------------------------------------------------------ the sink's commands

\* HINCRBY on one counter of a counter family (a missing field counts from 0).
HIncrBy(counters, field) ==
  IF field \in DOMAIN counters
  THEN [counters EXCEPT ![field] = @ + 1]
  ELSE counters @@ (field :> 1)

\* pipe.hset(trap_key, mapping=...), lines 216-224, and pipe.expire, line 227:
\* every key lives 30 days from its last write, so keys expire in the order
\* written; seq is the ordinal of the write.
HSetTrap(hash, id, td, seq) ==
  LET record == [data |-> td,
                 timestamp |-> td.timestamp,
                 host |-> td.trap.host,
                 source_ip |-> td.trap.source_ip,
                 severity |-> td.trap.severity,
                 trap_oid |-> td.trap.oid,
                 trap_name |-> td.trap.name,
                 written |-> seq]
  IN [k \in (DOMAIN hash) \cup {id} |-> IF k = id THEN record ELSE hash[k]]

\* pipe.lpush(self.trap_list_key, trap_id), line 230.
LPush(list, id) == <<id>> \o list

\* LTRIM whose stop index is max_list_length instead of max_list_length - 1.
LTrimThroughMax(list) ==
  SubSeq(list, 1, IF Len(list) < MaxListLength + 1 THEN Len(list) ELSE MaxListLength + 1)

\* pipe.ltrim(self.trap_list_key, 0, self.max_list_length - 1), line 233.
LTrim(list) == SubSeq(list, 1, IF Len(list) < MaxListLength THEN Len(list) ELSE MaxListLength)

\* The statistics commands without the HINCRBY of the host counter.
StatsUpdateNoHost(stats, td) ==
  [total_traps |-> stats.total_traps + 1,
   severity |-> HIncrBy(stats.severity, td.trap.severity),
   host |-> stats.host,
   last_trap_time |-> <<td.timestamp>>]

\* The statistics commands, lines 236-246.
StatsUpdate(stats, td) ==
  [total_traps |-> stats.total_traps + 1,
   severity |-> HIncrBy(stats.severity, td.trap.severity),
   host |-> HIncrBy(stats.host, td.trap.host),
   last_trap_time |-> <<td.timestamp>>]

\* trap_id, line 209: timestamp, host and id(trap_data) joined by "_"; neither the
\* timestamp nor the id holds a "_", so the three parts determine the string.
TrapId(td, addr) == <<td.timestamp, td.trap.host, addr>>

\* ------------------------------------------------------------------ dev/snmptrapd/trap_handler.py: the handler process

\* log_error whose line does not reach the error log.
LogErrorLost(log, message) == log

\* log_error: one more line in /var/log/snmp/trap_errors.log
LogError(log, message) == log + 1

\* The wall clock advances.
Tick ==
  /\ clock < MaxClock
  /\ clock' = clock + 1
  /\ UNCHANGED <<rpc, rstdin, redis_client, trap_data, trap_id, applied, stored, exit_code,
                 sink_calls, redis_hash, redis_list, redis_stats, pushed, fallback_log, error_log>>
  /\ UNCHANGED <<kafkaVars, logVars, pureVars>>

\* snmptrapd starts a handler process with a notification on its standard input
\* (while at most one other handler is running).
\* SNMPTrapHandler.__init__ pings the sink (_initialize_redis, lines 100-121);
\* process_trap, lines 269-351, reads the input and builds trap_data; with no
\* input it returns False and run returns 1 (lines 275-277, 376-378).
HandlerStart(p, lines, up) ==
  /\ rpc[p] = "new"
  /\ IF p = 1 THEN TRUE ELSE rpc[p - 1] # "new"
  /\ Cardinality({q \in Invocations : rpc[q] \in {"built", "stored"}}) <= 1
  /\ LET logInit == IF up THEN error_log
                    ELSE LogError(error_log, "Failed to initialize Redis connection")
     IN IF lines = <<>>
        THEN /\ error_log' = LogError(LogError(logInit, "No input received"),
                                      "Failed to process SNMP trap")
             /\ exit_code' = [exit_code EXCEPT ![p] = 1]
             /\ rpc' = [rpc EXCEPT ![p] = "exited"]
             /\ UNCHANGED <<trap_data, rstdin, redis_client, sink_calls>>
        ELSE /\ error_log' = logInit
             /\ trap_data' = [trap_data EXCEPT ![p] = <<BuildTrapData(lines, clock)>>]
             /\ rpc' = [rpc EXCEPT ![p] = "built"]
             /\ rstdin' = [rstdin EXCEPT ![p] = lines]
             /\ redis_client' = [redis_client EXCEPT ![p] = up]
             /\ sink_calls' = [sink_calls EXCEPT ![p] = 1]
             /\ UNCHANGED exit_code
  /\ UNCHANGED <<clock, trap_id, applied, stored,
                 redis_hash, redis_list, redis_stats, pushed, fallback_log>>
  /\ UNCHANGED <<kafkaVars, logVars, pureVars>>

\* The commands sent one by one, the connection lost after the first two.
RedisPipelineCutShort(id, td) ==
  /\ redis_hash' = HSetTrap(redis_hash, id, td, Len(pushed))
  /\ UNCHANGED <<redis_list, redis_stats, pushed>>

\* The five commands of the pipeline (a MULTI/EXEC transaction), lines 213-249.
RedisPipeline(id, td) ==
  /\ redis_hash' = HSetTrap(redis_hash, id, td, Len(pushed))
  /\ redis_list' = LTrim(LPush(redis_list, id))
  /\ redis_stats' = StatsUpdate(redis_stats, td)
  /\ pushed' = Append(pushed, id)

\* The handler tries the write again after a connection error once the sink
\* answers its ping.
AfterStoreRetrying(outcome, reconnect) ==
  IF outcome = "connection_error" /\ reconnect THEN "built" ELSE "stored"

\* Where the handler is once store_trap_in_redis has returned: process_trap
\* calls it once (line 354) and goes on whatever it returned; none of its
\* except clauses (lines 253-265) tries the write again.
AfterStore(outcome, reconnect) == "stored"

\* store_trap_in_redis, lines 202-265. addr is id(trap_data). After a connection
\* error or a timeout the handler pings the sink again (line 256); reconnect is
\* how that ends.
StoreTrapInRedis(p, addr, outcome, reconnect) ==
  /\ rpc[p] = "built"
  /\ rpc' = [rpc EXCEPT ![p] = AfterStore(outcome, reconnect)]
  /\ IF ~redis_client[p]
     THEN /\ outcome = "connection_error" /\ addr = "0x7f01" /\ ~reconnect
          /\ stored' = [stored EXCEPT ![p] = FALSE]
          /\ UNCHANGED <<redis_client, trap_id, applied, redis_hash, redis_list,
                         redis_stats, pushed, error_log, sink_calls>>
     ELSE LET td == trap_data[p][1]
              id == TrapId(td, addr)
          IN /\ trap_id' = [trap_id EXCEPT ![p] = <<id>>]
             /\ IF outcome \in {"ok", "timeout_applied"}
                THEN /\ RedisPipeline(id, td)
                     /\ applied' = [applied EXCEPT ![p] = TRUE]
                ELSE UNCHANGED <<redis_hash, redis_list, redis_stats, pushed, applied>>
             /\ stored' = [stored EXCEPT ![p] = (outcome = "ok")]
             /\ IF outcome \in {"connection_error", "timeout_applied"}
                THEN /\ redis_client' = [redis_client EXCEPT ![p] = reconnect]
                     /\ sink_calls' = [sink_calls EXCEPT ![p] = @ + 2]
                     /\ error_log' =
                          IF reconnect THEN LogError(error_log, "Redis connection error")
                          ELSE LogError(LogError(error_log, "Redis connection error"),
                                        "Failed to initialize Redis connection")
                ELSE /\ ~reconnect
                     /\ UNCHANGED redis_client
                     /\ sink_calls' = [sink_calls EXCEPT ![p] = @ + 1]
                     /\ error_log' = IF outcome = "ok" THEN error_log
                                     ELSE LogError(error_log, "Redis operation error")
  /\ UNCHANGED <<clock, rstdin, trap_data, exit_code, fallback_log>>
  /\ UNCHANGED <<kafkaVars, logVars, pureVars>>

\* fallback_to_file, lines 141-155: one line, the whole trap_data.
FallbackToFile(log, td) == Append(log, td)

\* process_trap, lines 353-366, and run, lines 376-380: fall back to the file
\* when the sink did not take the event, then return True; run returns 0 and the
\* process ends: its memory is gone, its exit status stays with the caller.
FinishTrap(p) ==
  /\ rpc[p] = "stored"
  /\ rpc' = [rpc EXCEPT ![p] = "exited"]
  /\ IF ~stored[p]
     THEN /\ fallback_log' = FallbackToFile(fallback_log, trap_data[p][1])
          /\ error_log' = LogError(error_log,
                                   "Stored trap in fallback file due to Redis unavailability")
     ELSE UNCHANGED <<fallback_log, error_log>>
  /\ exit_code' = [exit_code EXCEPT ![p] = 0]
  /\ rstdin' = [rstdin EXCEPT ![p] = <<>>]
  /\ redis_client' = [redis_client EXCEPT ![p] = FALSE]
  /\ trap_data' = [trap_data EXCEPT ![p] = <<>>]
  /\ trap_id' = [trap_id EXCEPT ![p] = <<>>]
  /\ applied' = [applied EXCEPT ![p] = FALSE]
  /\ stored' = [stored EXCEPT ![p] = FALSE]
  /\ sink_calls' = [sink_calls EXCEPT ![p] = 0]
  /\ UNCHANGED <<clock, redis_hash, redis_list, redis_stats, pushed>>
  /\ UNCHANGED <<kafkaVars, logVars, pureVars>>

\* The sink drops the event record whose 30 days have passed (line 227): the one
\* written longest ago. A handler process lives for seconds, so none is running
\* when that happens.
RedisExpire(id) ==
  /\ id \in DOMAIN redis_hash
  /\ \A k \in DOMAIN redis_hash : redis_hash[id].written <= redis_hash[k].written
  /\ \A p \in Invocations : rpc[p] \in {"new", "exited"}
  /\ redis_hash' = [k \in (DOMAIN redis_hash) \ {id} |-> redis_hash[k]]
  /\ UNCHANGED <<clock, rpc, rstdin, redis_client, trap_data, trap_id, applied, stored,
                 exit_code, sink_calls, redis_list, redis_stats, pushed, fallback_log, error_log>>
  /\ UNCHANGED <<kafkaVars, logVars, pureVars>>

\* ------------------------------------------------------------------ src/snmptrapd/trap_handler.py: the Kafka relay

\* How a Kafka handler's hand-over can end: the producer cannot be built (no
\* broker); send raises; send queues the record and the sender thread transmits
\* it before the process ends; send queues the record and the process ends first
\* (main returns right after send, lines 42-47: no flush, no wait on the future).
SendOutcomes == {"producer_error", "send_error", "delivered", "unsent_at_exit"}

\* read_trap, line 14: every line stripped, empty lines dropped.
StripLines(lines) ==
  LET keep == {i \in 1..Len(lines) : Strip(lines[i]) # <<>>}
      RECURSIVE Pick(_)
      Pick(i) == IF i > Len(lines) THEN <<>>
                 ELSE IF i \in keep THEN <<Strip(lines[i])>> \o Pick(i + 1)
                 ELSE Pick(i + 1)
  IN Pick(1)

\* read_trap, lines 12-28: <<>> for None, else <<trap_data>>. The timestamp is
\* the ISO-8601 text of the instant now.
read_trap(stdin, now) ==
  LET lines == StripLines(stdin)
  IN IF Len(lines) < 2 THEN <<>>
     ELSE <<[timestamp |-> [type |-> "str", at |-> now],
             host |-> lines[1],
             transport |-> lines[2],
             oids |-> SubSeq(lines, 3, Len(lines))]>>

\* ------------------------------------------------------------------ dev/trap-processor/trap_processor.py: pure parts

M_snmpTrapOID0 == <<"s", "n", "m", "p", "T", "r", "a", "p", "O", "I", "D", ".", "0">>
M_sysUpTime == <<"s", "y", "s", "U", "p", "T", "i", "m", "e">>
M_alarmseverity == <<"a", "l", "a", "r", "m", "s", "e", "v", "e", "r", "i", "t", "y">>
M_alarmnumber == <<"a", "l", "a", "r", "m", "n", "u", "m", "b", "e", "r">>
M_alarmtext == <<"a", "l", "a", "r", "m", "t", "e", "x", "t">>
M_dsrserverhostname == <<"d", "s", "r", "s", "e", "r", "v", "e", "r", "h", "o", "s", "t", "n", "a", "m", "e">>
M_dsralarminstance == <<"d", "s", "r", "a", "l", "a", "r", "m", "i", "n", "s", "t", "a", "n", "c", "e">>
LOCALHOST_IP == <<"1", "2", "7", ".", "0", ".", "0", ".", "1">>

RECURSIVE SplitWs(_)
\* str.split(): the maximal runs of non-whitespace, in order.
SplitWs(s) ==
  LET a == LStrip(s)
      sp == {i \in 1..Len(a) : IsSpace(a[i])}
  IN IF a = <<>> THEN <<>>
     ELSE IF sp = {} THEN <<a>>
     ELSE <<SubSeq(a, 1, Least(sp) - 1)>> \o SplitWs(SubSeq(a, Least(sp), Len(a)))

RECURSIVE JoinSpace(_)
\* ' '.join(parts)
JoinSpace(parts) ==
  IF parts = <<>> THEN <<>>
  ELSE IF Len(parts) = 1 THEN parts[1]
  ELSE parts[1] \o <<" ">> \o JoinSpace(Tail(parts))

\* The places where sub starts in s.
Occurrences(s, sub) ==
  {i \in 1..(Len(s) - Len(sub) + 1) : SubSeq(s, i, i + Len(sub) - 1) = sub}

\* s.split(sub)[0]
BeforeFirst(s, sub) ==
  IF Occurrences(s, sub) = {} THEN s ELSE SubSeq(s, 1, Least(Occurrences(s, sub)) - 1)

\* s.split(sub)[1], for an s that holds sub
SecondPiece(s, sub) ==
  LET rest == SubSeq(s, Least(Occurrences(s, sub)) + Len(sub), Len(s))
  IN BeforeFirst(rest, sub)

RECURSIVE AfterLastColons(_)
\* s.split('::')[-1] if '::' in s else s: the pieces are cut from the left.
AfterLastColons(s) ==
  LET at == Occurrences(s, <<":", ":">>)
  IN IF at = {} THEN s ELSE AfterLastColons(SubSeq(s, Least(at) + 2, Len(s)))

\* _parse_trap, lines 153-158.
ConsumerSourceIp(transport) ==
  IF Contains(transport, <<"-", ">">>)
  THEN LET source_part == BeforeFirst(transport, <<"-", ">">>)
       IN IF Contains(source_part, <<"[">>) /\ Contains(source_part, <<"]">>)
          THEN BeforeFirst(BeforeFirst(SecondPiece(source_part, <<"[">>), <<"]">>), <<":">>)
          ELSE LOCALHOST_IP
  ELSE LOCALHOST_IP

\* The last word of the first line that holds marker, or "" (lines 161-167, 176-180).
LastWordOfFirst(oids, marker) ==
  LET at == {i \in 1..Len(oids) : Contains(oids[i], marker)}
  IN IF at = {} THEN <<>>
     ELSE LET parts == SplitWs(oids[Least(at)]) IN parts[Len(parts)]

\* What _parse_trap has flattened before the first line (lines 183-190).
FlattenStart ==
  [severity |-> S_info, alarm_number |-> <<>>, alarm_text |-> <<>>,
   alarm_server |-> <<>>, alarm_instance |-> <<>>, varbinds |-> <<>>]

\* One line of the loop of lines 191-218. A flattened field is <<>> for None.
FlattenLine(acc, line) ==
  IF Contains(line, M_snmpTrapOID0) \/ Contains(line, M_sysUpTime) THEN acc
  ELSE LET parts == SplitWs(line)
           oid_part == parts[1]
           value == JoinSpace(Tail(parts))
           resolved_name == AfterLastColons(oid_part)
           resolved_lower == Lower(resolved_name)
           flat == IF Contains(resolved_lower, M_alarmseverity)
                   THEN [acc EXCEPT !.severity = Lower(value)]
                   ELSE IF Contains(resolved_lower, M_alarmnumber)
                   THEN [acc EXCEPT !.alarm_number = <<value>>]
                   ELSE IF Contains(resolved_lower, M_alarmtext)
                   THEN [acc EXCEPT !.alarm_text = <<value>>]
                   ELSE IF Contains(resolved_lower, M_dsrserverhostname)
                   THEN [acc EXCEPT !.alarm_server = <<value>>]
                   ELSE IF Contains(resolved_lower, M_dsralarminstance)
                   THEN [acc EXCEPT !.alarm_instance = <<value>>]
                   ELSE acc
       IN [flat EXCEPT !.varbinds =
             Append(@, [oid |-> oid_part, value |-> value, resolved_name |-> resolved_name])]

RECURSIVE FlattenLines(_, _)
\* The loop of lines 191-218 over the data lines, in order.
FlattenLines(acc, oids) ==
  IF oids = <<>> THEN acc ELSE FlattenLines(FlattenLine(acc, Head(oids)), Tail(oids))

\* TrapProcessor._parse_trap, lines 149-239, on a decoded message of the Kafka
\* relay. The timestamp becomes a datetime object (line 171).
parse_trap(trap_json) ==
  LET trap_oid == LastWordOfFirst(trap_json.oids, M_snmpTrapOID0)
      flat == FlattenLines(FlattenStart, trap_json.oids)
  IN [timestamp |-> [type |-> "datetime", at |-> trap_json.timestamp.at],
      hostname |-> trap_json.host,
      source_ip |-> ConsumerSourceIp(trap_json.transport),
      trap_oid |-> trap_oid,
      trap_name |-> AfterLastColons(trap_oid),
      severity |-> flat.severity,
      uptime |-> LastWordOfFirst(trap_json.oids, M_sysUpTime),
      transport |-> trap_json.transport,
      variable_bindings |-> flat.varbinds,
      raw_data |-> trap_json,
      alarm_server |-> flat.alarm_server,
      alarm_instance |-> flat.alarm_instance,
      alarm_number |-> flat.alarm_number,
      alarm_text |-> flat.alarm_text]

\* json.dumps(trap_data) of line 280: the encoder takes text, numbers, lists,
\* dicts and None, and raises TypeError on a datetime object.
JsonSerializable(trap) == trap.timestamp.type # "datetime"

\* ------------------------------------------------------------------ dev/trap-processor/trap_processor.py: the consumer process

\* How the insert of _store_trap can end: done, an SQLAlchemyError, or a
\* KeyboardInterrupt raised in the main thread while it is inside _store_trap.
StoreOutcomes == {"ok", "db_error", "keyboard_interrupt"}

\* value_serializer, line 38 of the relay: json.dumps(v).encode("utf-8"). A
\* message body is the bytes of a JSON document, or bytes that are no UTF-8
\* text, or text that is no JSON document.
JsonDumps(v) == [kind |-> "json", doc |-> <<v>>]

\* json.loads(msg.value().decode('utf-8')), line 298: <<document>>, or the
\* exception raised.
JsonLoads(body) ==
  IF body.kind = "json" THEN [doc |-> body.doc, raised |-> "none"]
  ELSE IF body.kind = "bytes" THEN [doc |-> <<>>, raised |-> "UnicodeDecodeError"]
  ELSE [doc |-> <<>>, raised |-> "JSONDecodeError"]

\* Bodies a producer other than the relay can put in the topic.
ForeignBodies == {[kind |-> "bytes", doc |-> <<>>], [kind |-> "text", doc |-> <<>>]}

\* main, lines 30-47: one handler process from start to exit. eid names the
\* invocation: it tells apart events of equal content.
KafkaRelay(k, stdin, outcome) ==
  /\ kexit[k] = -1
  /\ IF k = 1 THEN TRUE ELSE kexit[k - 1] # -1
  /\ kstdin' = [kstdin EXCEPT ![k] = stdin]
  /\ LET trap == read_trap(stdin, clock)
     IN IF trap = <<>>
        THEN /\ outcome = "delivered"
             /\ kexit' = [kexit EXCEPT ![k] = 1]
             /\ UNCHANGED <<kafka_topic, kafka_fallback>>
        ELSE IF outcome \in {"producer_error", "send_error"}
        THEN /\ kafka_fallback' = Append(kafka_fallback, [eid |-> k, value |-> trap[1]])
             /\ kexit' = [kexit EXCEPT ![k] = 1]
             /\ UNCHANGED kafka_topic
        ELSE /\ kafka_topic' = IF outcome = "delivered"
                               THEN Append(kafka_topic, [eid |-> k, value |-> JsonDumps(trap[1])])
                               ELSE kafka_topic
             /\ kexit' = [kexit EXCEPT ![k] = 0]
             /\ UNCHANGED kafka_fallback
  /\ UNCHANGED <<cpc, cexit, consumer_conn, db_engine, db_attempt, sleeps, poll_errors,
                 consumer_offset, committed_offset, restarts, table, failed_log,
                 handed, store_failed, processor_log>>
  /\ UNCHANGED <<relayVars, logVars, pureVars>>

\* Another producer puts a message in the topic (eid 0: no relay invocation).
ForeignProduce(body) ==
  /\ Cardinality({i \in 1..Len(kafka_topic) : kafka_topic[i].eid = 0}) < MaxForeign
  /\ kafka_topic' = Append(kafka_topic, [eid |-> 0, value |-> body])
  /\ UNCHANGED <<kstdin, kexit, kafka_fallback, cpc, cexit, consumer_conn, db_engine,
                 db_attempt, sleeps, poll_errors, consumer_offset, committed_offset,
                 restarts, table, failed_log, handed, store_failed, processor_log>>
  /\ UNCHANGED <<relayVars, logVars, pureVars>>

\* The except clause of _store_trap, lines 276-280: the event goes to the
\* failure log as json.dumps(trap_data); a TypeError of json.dumps leaves the
\* file as it was and reaches the except clause of process_traps, line 305.
FailureLogAppend(log, eid, parsed) ==
  IF JsonSerializable(parsed) THEN Append(log, [eid |-> eid, value |-> parsed]) ELSE log

\* self.logger.info / warning / error, and logging.error of __main__: the line
\* is appended to the log file, whose last line it then is.
LogLine(log, line) == line

\* TrapProcessor._store_trap, lines 241-280: one INSERT in one transaction
\* (engine.begin(): committed at the end of the with block, rolled back when an
\* exception leaves it). <<table, failure log, processor log>> after it.
store_trap_kafka(tbl, flog, plog, eid, parsed, outcome) ==
  IF outcome = "ok"
  THEN <<Append(tbl, [eid |-> eid, row |-> parsed]), flog, LogLine(plog, "Stored trap")>>
  ELSE IF outcome = "db_error"
  THEN <<tbl, FailureLogAppend(flog, eid, parsed),
         LogLine(plog, "Database error storing trap")>>
  ELSE <<tbl, flog, plog>>

\* The offset a consumer starts from: the group's committed offset, or the
\* earliest one ('auto.offset.reset': 'earliest', line 36).
StartOffset(committed) == IF committed = <<>> THEN 0 ELSE committed[1]

\* The offset committed after a message is processed: the configuration says
\* 'enable.auto.commit': False (line 37) and process_traps never calls commit.
CommitAfter(committed, offset) == committed

\* _initialize_components, lines 58-59.
max_retries == 5
retry_delay == 5

\* A wait that does not grow.
RetryWaitFlat(attempt) == retry_delay

\* time.sleep(retry_delay * (attempt + 1)), line 147: the wait after the failed
\* attempt of this index (from 0).
RetryWait(attempt) == retry_delay * (attempt + 1)

\* A loop with no except Exception clause.
EndsLoopUncaught(exception) == exception \notin {"none", "JSONDecodeError"}

\* The except clauses around the loop body, lines 303-307: JSONDecodeError and
\* every other Exception are logged inside the loop; KeyboardInterrupt, which is
\* no Exception, leaves the loop.
EndsLoop(exception) == exception = "KeyboardInterrupt"

\* The consumer process ends with this status. released: the finally clause of
\* process_traps ran (lines 309-314), which closes the consumer and disposes
\* the engine if they are set.
ConsumerExit(status, released) ==
  /\ cpc' = "down"
  /\ cexit' = status
  /\ restarts' = restarts + 1
  /\ consumer_conn' = IF released /\ consumer_conn = "open" THEN "closed" ELSE consumer_conn
  /\ db_engine' = IF released /\ db_engine = "connected" THEN "disposed" ELSE db_engine

\* __main__, lines 317-323, TrapProcessor.__init__ and _initialize_kafka, lines
\* 67-91: a consumer process starts. With the broker up it subscribes and goes
\* on to the database; with the broker down for all max_retries attempts the
\* KafkaException reaches __main__, which logs it and exits with 1.
ConsumerStart(kafka_up) ==
  /\ cpc = "down"
  /\ restarts <= MaxRestarts
  /\ db_attempt' = 0
  /\ sleeps' = <<>>
  /\ IF kafka_up
     THEN /\ cpc' = "db_init"
          /\ cexit' = -1
          /\ consumer_conn' = "open"
          /\ db_engine' = "none"
          /\ consumer_offset' = StartOffset(committed_offset)
          /\ processor_log' = LogLine(processor_log, "Kafka consumer initialized and subscribed")
          /\ UNCHANGED restarts
     ELSE /\ cpc' = "down"
          /\ cexit' = 1
          /\ restarts' = restarts + 1
          /\ consumer_conn' = "none"
          /\ db_engine' = "none"
          /\ processor_log' = LogLine(processor_log, "Fatal error")
          /\ UNCHANGED consumer_offset
  /\ UNCHANGED <<kstdin, kexit, kafka_topic, kafka_fallback, poll_errors, committed_offset,
                 table, failed_log, handed, store_failed>>
  /\ UNCHANGED <<relayVars, logVars, pureVars>>

\* _initialize_database, lines 127-147: one pass of its loop. A failed attempt
\* is logged; after the last one the exception reaches __main__ (lines 321-323),
\* else the process sleeps before the next attempt. When the function returns
\* its loop variable is gone.
DbAttempt(outcome) ==
  /\ cpc = "db_init"
  /\ db_attempt < max_retries
  /\ IF outcome = "ok"
     THEN /\ cpc' = "running"
          /\ db_engine' = "connected"
          /\ db_attempt' = 0
          /\ sleeps' = <<>>
          /\ processor_log' = LogLine(processor_log, "Starting trap processing loop")
          /\ UNCHANGED <<cexit, consumer_conn, restarts>>
     ELSE IF db_attempt = max_retries - 1
     THEN /\ ConsumerExit(1, FALSE)
          /\ db_attempt' = db_attempt + 1
          /\ processor_log' = LogLine(processor_log, "Fatal error")
          /\ UNCHANGED sleeps
     ELSE /\ sleeps' = Append(sleeps, RetryWait(db_attempt))
          /\ db_attempt' = db_attempt + 1
          /\ processor_log' = LogLine(processor_log, "Database connection attempt failed")
          /\ UNCHANGED <<cpc, cexit, consumer_conn, db_engine, restarts>>
  /\ UNCHANGED <<kstdin, kexit, kafka_topic, kafka_fallback, poll_errors, consumer_offset,
                 committed_offset, table, failed_log, handed, store_failed>>
  /\ UNCHANGED <<relayVars, logVars, pureVars>>

\* process_traps, lines 287-306: poll returns the next message; it is decoded,
\* parsed and stored. An exception of the loop body is logged, or ends the loop
\* (lines 307-314) and the process.
ConsumerMessage(outcome) ==
  /\ cpc = "running"
  /\ consumer_offset < Len(kafka_topic)
  /\ LET msg == kafka_topic[consumer_offset + 1]
         loaded == JsonLoads(msg.value)
     IN IF loaded.raised # "none"
        THEN /\ outcome = "ok"
             /\ IF EndsLoop(loaded.raised)
                THEN /\ ConsumerExit(1, TRUE)
                     /\ processor_log' = LogLine(processor_log, "Fatal error")
                ELSE /\ processor_log' =
                          LogLine(processor_log,
                                  IF loaded.raised = "JSONDecodeError"
                                  THEN "Invalid JSON in message"
                                  ELSE "Error processing message")
                     /\ UNCHANGED <<cpc, cexit, restarts, consumer_conn, db_engine>>
             /\ UNCHANGED <<handed, store_failed, table, failed_log>>
        ELSE LET parsed == parse_trap(loaded.doc[1])
                 after == store_trap_kafka(table, failed_log, processor_log, msg.eid,
                                           parsed, outcome)
                 raised == IF outcome = "keyboard_interrupt" THEN "KeyboardInterrupt"
                           ELSE IF outcome = "db_error" /\ ~JsonSerializable(parsed)
                           THEN "TypeError" ELSE "none"
             IN /\ handed' = Append(handed, msg.eid)
                /\ store_failed' = IF outcome = "db_error"
                                   THEN store_failed \cup {msg.eid} ELSE store_failed
                /\ table' = after[1]
                /\ failed_log' = after[2]
                /\ IF EndsLoop(raised)
                   THEN /\ ConsumerExit(IF raised = "KeyboardInterrupt" THEN 0 ELSE 1, TRUE)
                        /\ processor_log' =
                             LogLine(after[3], IF raised = "KeyboardInterrupt"
                                               THEN "Processor shutdown complete"
                                               ELSE "Fatal error")
                   ELSE /\ processor_log' =
                             IF raised = "none" THEN after[3]
                             ELSE LogLine(after[3], "Error processing message")
                        /\ UNCHANGED <<cpc, cexit, restarts, consumer_conn, db_engine>>
  /\ consumer_offset' = consumer_offset + 1
  /\ committed_offset' = CommitAfter(committed_offset, consumer_offset + 1)
  /\ UNCHANGED <<kstdin, kexit, kafka_topic, kafka_fallback, db_attempt, sleeps, poll_errors>>
  /\ UNCHANGED <<relayVars, logVars, pureVars>>

\* A poll error that is raised as an exception instead of being logged.
ConsumerPollErrorRaised ==
  /\ cpc = "running"
  /\ Len(poll_errors) < MaxPollErrors
  /\ poll_errors' = Append(poll_errors, <<restarts, consumer_offset>>)
  /\ processor_log' = LogLine(processor_log, "Fatal error")
  /\ ConsumerExit(1, TRUE)
  /\ UNCHANGED <<kstdin, kexit, kafka_topic, kafka_fallback, db_attempt, sleeps,
                 consumer_offset, committed_offset, table, failed_log, handed, store_failed>>
  /\ UNCHANGED <<relayVars, logVars, pureVars>>

\* process_traps, lines 287-295: poll returns a message that is an error (the
\* broker cannot be reached, say): it is logged and the loop polls again.
ConsumerPollError ==
  /\ cpc = "running"
  /\ Len(poll_errors) < MaxPollErrors
  /\ poll_errors' = Append(poll_errors, <<restarts, consumer_offset>>)
  /\ processor_log' = LogLine(processor_log, "Kafka error")
  /\ UNCHANGED <<kstdin, kexit, kafka_topic, kafka_fallback, cpc, cexit, consumer_conn,
                 db_engine, db_attempt, sleeps, consumer_offset, committed_offset,
                 restarts, table, failed_log, handed, store_failed>>
  /\ UNCHANGED <<relayVars, logVars, pureVars>>

\* process_traps, lines 307-314: a KeyboardInterrupt between two messages; the
\* finally clause closes the consumer and disposes the engine and the process
\* ends. It can be started again.
ConsumerStop ==
  /\ cpc = "running"
  /\ ConsumerExit(0, TRUE)
  /\ processor_log' = LogLine(processor_log, "Processor shutdown complete")
  /\ UNCHANGED <<kstdin, kexit, kafka_topic, kafka_fallback, db_attempt, sleeps, poll_errors,
                 consumer_offset, committed_offset, table, failed_log, handed,
                 store_failed>>
  /\ UNCHANGED <<relayVars, logVars, pureVars>>

\* ------------------------------------------------------------------ trap-processor/trap_processor.py: the log-file consumer

\* The lines of one entry of the trap log. A line is modelled by its prefix and
\* the text after its first colon, which here names the entry.
EntryLines(e) ==
  <<<<"TRAP_START", e>>, <<"HOST", e>>, <<"OID", e>>, <<"VALUE", e>>, <<"---", e>>>>

\* The writer puts an entry into the log with one write, or with two: the first
\* FirstPart lines, then the rest.
FirstPart == {2}

RECURSIVE SplitEntries(_, _)
\* content.split('---\n'), lines 221-225: the runs of lines between separators;
\* cur is the run being gathered. Empty runs are dropped (entry.strip()).
SplitEntries(content, cur) ==
  IF content = <<>> THEN (IF cur = <<>> THEN <<>> ELSE <<cur>>)
  ELSE IF Head(content)[1] = "---"
       THEN (IF cur = <<>> THEN <<>> ELSE <<cur>>) \o SplitEntries(Tail(content), <<>>)
       ELSE SplitEntries(Tail(content), Append(cur, Head(content)))

RECURSIVE ParseBindings(_, _)
\* parse_trap_entry, lines 151-162: a VALUE line makes a binding with the OID
\* line seen last; without one it is skipped. oid is <<>> or <<text>>.
ParseBindings(lines, oid) ==
  IF lines = <<>> THEN <<>>
  ELSE LET line == Head(lines)
       IN IF line[1] = "OID" THEN ParseBindings(Tail(lines), <<line[2]>>)
          ELSE IF line[1] = "VALUE" /\ oid # <<>>
          THEN <<[oid |-> oid[1], resolved_name |-> oid[1], value |-> line[2]]>>
               \o ParseBindings(Tail(lines), oid)
          ELSE ParseBindings(Tail(lines), oid)

\* The text of the last line with this prefix: <<>> or <<text>>.
LastField(lines, prefix) ==
  LET at == {i \in 1..Len(lines) : lines[i][1] = prefix}
  IN IF at = {} THEN <<>> ELSE <<lines[Greatest(at)][2]>>

\* TrapProcessor.parse_trap_entry, lines 138-170: <<>> for None. A missing key
\* of trap_data is <<>>.
parse_trap_entry(lines) ==
  LET vbs == ParseBindings(lines, <<>>)
      td == [timestamp |-> LastField(lines, "TRAP_START"),
             hostname |-> LastField(lines, "HOST"),
             source_ip |-> LastField(lines, "IP"),
             variable_bindings |-> vbs,
             trap_oid |-> IF vbs = <<>> THEN <<>> ELSE <<vbs[1].oid>>,
             trap_name |-> IF vbs = <<>> THEN <<>> ELSE <<vbs[1].resolved_name>>,
             entry |-> lines[1][2]]
  IN IF td.timestamp = <<>> /\ td.hostname = <<>> /\ td.source_ip = <<>> /\ vbs = <<>>
     THEN <<>> ELSE <<td>>

RECURSIVE ParseAll(_)
\* The loop of lines 223-229 up to the call of store_trap: the entries of more
\* than one line that parse to something, in order.
ParseAll(entries) ==
  IF entries = <<>> THEN <<>>
  ELSE (IF Len(Head(entries)) > 1 THEN parse_trap_entry(Head(entries)) ELSE <<>>)
       \o ParseAll(Tail(entries))

\* The writer of the trap log begins entry written + 1: all of it (part = 5) or
\* its first lines only. The directory watch reports the change.
WriterAppend(part) ==
  /\ written < MaxEntries
  /\ half_written = 0
  /\ trap_log' = trap_log \o SubSeq(EntryLines(written + 1), 1, part)
  /\ written' = written + 1
  /\ half_written' = IF part = Len(EntryLines(written + 1)) THEN 0 ELSE part
  /\ pending_events' = TRUE
  /\ UNCHANGED <<last_position, lpc, lseek, lcontent, ltell, lqueue, lrestarts, ltable, lhanded>>
  /\ UNCHANGED <<relayVars, kafkaVars, pureVars>>

\* The writer writes the rest of the entry it began.
WriterFinish ==
  /\ half_written > 0
  /\ trap_log' = trap_log \o SubSeq(EntryLines(written), half_written + 1, Len(EntryLines(written)))
  /\ half_written' = 0
  /\ pending_events' = TRUE
  /\ UNCHANGED <<written, last_position, lpc, lseek, lcontent, ltell, lqueue, lrestarts,
                 ltable, lhanded>>
  /\ UNCHANGED <<relayVars, kafkaVars, pureVars>>

\* process_trap_log, lines 210-215, entered by the main loop (line 259) or by
\* on_modified in the observer thread (line 242): set last_position if it is
\* not set, open the file and seek.
BeginStep(t) ==
  /\ lpc[t] = "idle"
  /\ IF t = "observer"
     THEN pending_events /\ pending_events' = FALSE
     ELSE UNCHANGED pending_events
  /\ last_position' = IF last_position = <<>> THEN <<0>> ELSE last_position
  /\ lseek' = [lseek EXCEPT ![t] = last_position'[1]]
  /\ lpc' = [lpc EXCEPT ![t] = "sought"]
  /\ UNCHANGED <<trap_log, written, half_written, lcontent, ltell, lqueue, lrestarts,
                 ltable, lhanded>>
  /\ UNCHANGED <<relayVars, kafkaVars, pureVars>>

\* Line 216: content = f.read(), to the end of the file as it is now.
ReadStep(t) ==
  /\ lpc[t] = "sought"
  /\ lcontent' = [lcontent EXCEPT ![t] = SubSeq(trap_log, lseek[t] + 1, Len(trap_log))]
  /\ ltell' = [ltell EXCEPT ![t] = Len(trap_log)]
  /\ lpc' = [lpc EXCEPT ![t] = "read"]
  /\ UNCHANGED <<trap_log, written, half_written, pending_events, last_position, lseek,
                 lqueue, lrestarts, ltable, lhanded>>
  /\ UNCHANGED <<relayVars, kafkaVars, pureVars>>

\* The position line 217 saves.
SavedPosition(current, tell) == <<tell>>

\* Lines 217-228: save the position and close the file, split the content and
\* parse the entries.
SavePositionStep(t) ==
  /\ lpc[t] = "read"
  /\ last_position' = SavedPosition(last_position, ltell[t])
  /\ lqueue' = [lqueue EXCEPT ![t] = ParseAll(SplitEntries(lcontent[t], <<>>))]
  /\ lcontent' = [lcontent EXCEPT ![t] = <<>>]
  /\ lseek' = [lseek EXCEPT ![t] = 0]
  /\ ltell' = [ltell EXCEPT ![t] = 0]
  /\ lpc' = [lpc EXCEPT ![t] = IF lqueue'[t] = <<>> THEN "idle" ELSE "storing"]
  /\ UNCHANGED <<trap_log, written, half_written, pending_events, lrestarts,
                 ltable, lhanded>>
  /\ UNCHANGED <<relayVars, kafkaVars, pureVars>>

\* TrapProcessor.store_trap, lines 172-200: one INSERT; a failure is logged.
store_trap_log(tbl, td, outcome) ==
  IF outcome = "ok" THEN HIncrBy(tbl, td) ELSE tbl

\* Line 229: the next parsed entry is handed to store_trap.
StoreStep(t, outcome) ==
  /\ lpc[t] = "storing"
  /\ lhanded' = lhanded \cup {Head(lqueue[t])}
  /\ ltable' = store_trap_log(ltable, Head(lqueue[t]), outcome)
  /\ lqueue' = [lqueue EXCEPT ![t] = Tail(@)]
  /\ lpc' = [lpc EXCEPT ![t] = IF Tail(lqueue[t]) = <<>> THEN "idle" ELSE "storing"]
  /\ UNCHANGED <<trap_log, written, half_written, pending_events, last_position, lseek,
                 lcontent, ltell, lrestarts>>
  /\ UNCHANGED <<relayVars, kafkaVars, pureVars>>

\* The consumer process ends (lines 262-266, or a crash) and is started again
\* (main, lines 244-254): a new TrapProcessor has no last_position attribute.
LogConsumerRestart ==
  /\ lrestarts < MaxRestarts
  /\ lrestarts' = lrestarts + 1
  /\ last_position' = <<>>
  /\ pending_events' = FALSE
  /\ lpc' = [t \in Threads |-> "idle"]
  /\ lseek' = [t \in Threads |-> 0]
  /\ lcontent' = [t \in Threads |-> <<>>]
  /\ ltell' = [t \in Threads |-> 0]
  /\ lqueue' = [t \in Threads |-> <<>>]
  /\ UNCHANGED <<trap_log, written, half_written, ltable, lhanded>>
  /\ UNCHANGED <<relayVars, kafkaVars, pureVars>>

\* ------------------------------------------------------------------ functions called by themselves

\* The upper-case letter of a character, the character itself if it has none.
UpperChar(c) ==
  IF \E u \in DOMAIN UpperToLower : UpperToLower[u] = c
  THEN CHOOSE u \in DOMAIN UpperToLower : UpperToLower[u] = c
  ELSE c

\* Every spelling of the lower-case text s in upper- and lower-case letters.
CaseVariants(s) ==
  { [i \in 1..Len(s) |-> IF up[i] THEN UpperChar(s[i]) ELSE s[i]] :
      up \in [1..Len(s) -> BOOLEAN] }

\* Indicators that are in no spelling a key of the severity map.
OtherIndicators ==
  { <<>>, <<"0">>, <<"6">>, <<"1", "1">>, <<" ", "2">>, <<"2", " ">>, <<"m", "a", "j">>,
    <<"M", "A", "J", "O", "R", "S">>, <<"w", "a", "r", "n", "i", "n", "g">>,
    <<"c", "l", "e", "a", "r", "e", "d">>, <<"I", "n", "f", "o", "!">>, <<"-", "1">>,
    <<"1", ".", "0">>, <<"n", "o", "n", "e">> }

\* The eagle_severity arguments get_trap_severity is called with.
SeverityIndicators ==
  UNION {CaseVariants(key) : key \in DOMAIN SeverityMap} \cup OtherIndicators

\* The trap_oid arguments get_trap_severity is called with.
TrapOids == {<<>>, <<"I", "F", "-", "M", "I", "B", ":", ":", "l", "i", "n", "k", "D", "o", "w", "n", ".", "0">>}

\* The calls of get_trap_severity.
SeverityCalls ==
  { [fn |-> "get_trap_severity", args |-> <<trap_oid, eagle_severity>>] :
      trap_oid \in TrapOids, eagle_severity \in SeverityIndicators }

\* No function is being called by itself.
PureInit ==
  /\ call = <<>>
  /\ returned = <<>>

\* One call of get_trap_severity is about to be made.
PureCallInit ==
  /\ call \in {<<c>> : c \in SeverityCalls}
  /\ returned = <<>>

\* The call returns.
GetTrapSeverityReturn ==
  /\ call # <<>>
  /\ call[1].fn = "get_trap_severity"
  /\ returned = <<>>
  /\ returned' = <<get_trap_severity(call[1].args[1], call[1].args[2])>>
  /\ UNCHANGED call
  /\ UNCHANGED <<relayVars, kafkaVars, logVars>>

\* ------------------------------------------------------------------ process_trap called by itself

LineTrapOidNumeric == <<".", "1", ".", "3", ".", "6", ".", "1", ".", "6", ".", "3", ".", "1", ".", "1", ".", "4", ".", "1", ".", "0", " ", "M", "I", "B", ":", ":">>
LineTrapOidBare == <<"s", "n", "m", "p", "T", "r", "a", "p", "O", "I", "D", ".", "0", " ", "x">>
LineSeverity3 == <<"X", ":", ":", "E", "A", "G", "L", "E", "X", "G", "D", "S", "R", "A", "L", "A", "R", "M", "S", "E", "V", "E", "R", "I", "T", "Y", ".", "1", " ", "3">>
LineTrailingSpace == <<"t", "r", "a", "i", "l", "i", "n", "g", " ">>
LineLeadingSpace == <<" ", "I", "F", "-", "M", "I", "B", ":", ":", "i", "f", "I", "n", "d", "e", "x", ".", "1", " ", " ", "7", " ">>
LineUptime == <<"D", "I", "S", "M", "A", "N", "-", "E", "V", "E", "N", "T", "-", "M", "I", "B", ":", ":", "s", "y", "s", "U", "p", "T", "i", "m", "e", "I", "n", "s", "t", "a", "n", "c", "e", " ", "1", ":", "0", "2">>

\* The data lines the notifications given to process_trap are made of.
DataLines ==
  { LineTrapOid, LineTrapOidNumeric, LineTrapOidBare, LineSeverity2, LineSeverity3,
    LineNoSpace, LineTrailingSpace, LineLeadingSpace, LineUptime }

\* Every sequence of at most n members of S.
SeqsUpTo(S, n) == UNION {[1..k -> S] : k \in 0..n}

\* The inputs of process_trap: a host line alone, or a host line, a transport
\* line and at most MaxDataLines data lines.
ParserInputs ==
  {<<HostA>>} \cup {<<HostA, Transport1>> \o data : data \in SeqsUpTo(DataLines, MaxDataLines)}

\* The calls of process_trap, lines 269-351.
ProcessTrapCalls ==
  {[fn |-> "process_trap", args |-> <<lines, 0>>] : lines \in ParserInputs}

\* The text of a trap identifier value that the trap name is derived from.
TrapOidValues ==
  { <<"I", "F", "-", "M", "I", "B", ":", ":", "l", "i", "n", "k", "D", "o", "w", "n", ".", "0">>, <<"I", "F", "-", "M", "I", "B", ":", ":", "l", "i", "n", "k", "D", "o", "w", "n">>, <<"l", "i", "n", "k", "D", "o", "w", "n">>, <<".", "1", ".", "3", ".", "6", ".", "1", ".", "4", ".", "1", ".", "9", ".", "0", ".", "0">>,
    <<"A", ":", ":", "B", ":", ":", "c", ".", "0">>, <<"M", "I", "B", ":", ":">>, <<".", "0">>, <<"A", ":", ":", ".", "0", ".", "0">>,
    <<"x", ".", "0", ".", "0", ".", "0">>, <<"a", ":", "b", ".", "1">>, <<>> }

\* The derivations of a trap name, lines 319-320.
TrapNameCalls == {[fn |-> "trap_name", args |-> <<value>>] : value \in TrapOidValues}

\* One call of process_trap or of the trap-name derivation is about to be made.
ParserCallInit ==
  /\ call \in {<<c>> : c \in ProcessTrapCalls \cup TrapNameCalls}
  /\ returned = <<>>

\* process_trap has built trap_data.
ProcessTrapReturn ==
  /\ call # <<>>
  /\ call[1].fn = "process_trap"
  /\ returned = <<>>
  /\ returned' = <<BuildTrapData(call[1].args[1], call[1].args[2])>>
  /\ UNCHANGED call
  /\ UNCHANGED <<relayVars, kafkaVars, logVars>>

\* The trap name is derived.
TrapNameReturn ==
  /\ call # <<>>
  /\ call[1].fn = "trap_name"
  /\ returned = <<>>
  /\ returned' = <<TrapName(call[1].args[1])>>
  /\ UNCHANGED call
  /\ UNCHANGED <<relayVars, kafkaVars, logVars>>

\* ------------------------------------------------------------------ _parse_trap called by itself

LineAlarmNumber1 == <<"X", ":", ":", "e", "a", "g", "l", "e", "X", "g", "D", "s", "r", "A", "l", "a", "r", "m", "N", "u", "m", "b", "e", "r", ".", "0", " ", "1", "1">>
LineAlarmNumber2 == <<"X", ":", ":", "E", "A", "G", "L", "E", "X", "G", "D", "S", "R", "A", "L", "A", "R", "M", "N", "U", "M", "B", "E", "R", ".", "1", " ", "2", "2">>
LineAlarmText == <<"X", ":", ":", "e", "a", "g", "l", "e", "X", "g", "D", "s", "r", "A", "l", "a", "r", "m", "T", "e", "x", "t", ".", "0", " ", "L", "i", "n", "k", " ", " ", "d", "o", "w", "n">>
LineUnmatched == <<"I", "F", "-", "M", "I", "B", ":", ":", "i", "f", "I", "n", "d", "e", "x", ".", "1", " ", "7">>
LineServer == <<"X", ":", ":", "e", "a", "g", "l", "e", "X", "g", "D", "s", "r", "S", "e", "r", "v", "e", "r", "H", "o", "s", "t", "n", "a", "m", "e", ".", "0", " ", "s", "r", "v", "1">>
LineInstance == <<"X", ":", ":", "e", "a", "g", "l", "e", "X", "g", "D", "s", "r", "A", "l", "a", "r", "m", "I", "n", "s", "t", "a", "n", "c", "e", ".", "0", " ", "i", "1">>
TransportNoArrow == <<"U", "D", "P", ":", " ", "[", "1", "0", ".", "0", ".", "0", ".", "5", "]", ":", "1", "6", "1">>
TransportBare == <<"T", "C", "P", ":", " ", "1", "0", ".", "0", ".", "0", ".", "7", ":", "1", "6", "2", "-", ">", "x">>
TransportUnknown == <<"u", "n", "k", "n", "o", "w", "n">>

\* The data lines the notifications relayed to the topic are made of.
ConsumerDataLines ==
  { LineTrapOid, LineUptime, LineAlarmNumber1, LineAlarmNumber2, LineAlarmText,
    LineUnmatched, LineServer, LineInstance }

\* Their transport lines.
ConsumerTransports == {Transport1, TransportNoArrow, TransportBare, TransportUnknown}

\* What the Kafka relay is given: a host line, a transport line and at most
\* MaxDataLines data lines.
RelayedInputs ==
  { <<HostA, transport>> \o data :
      transport \in ConsumerTransports, data \in SeqsUpTo(ConsumerDataLines, MaxDataLines) }

\* The calls of _parse_trap: each on the message the Kafka relay makes of an input.
ParseTrapCalls ==
  { [fn |-> "_parse_trap", args |-> <<JsonDumps(read_trap(stdin, 0)[1])>>] :
      stdin \in RelayedInputs }

\* One message is about to be decoded and parsed.
DecoderCallInit ==
  /\ call \in {<<c>> : c \in ParseTrapCalls}
  /\ returned = <<>>

\* process_traps, lines 298-300: the message is decoded and _parse_trap returns.
ParseTrapReturn ==
  /\ call # <<>>
  /\ call[1].fn = "_parse_trap"
  /\ returned = <<>>
  /\ returned' = <<parse_trap(JsonLoads(call[1].args[1]).doc[1])>>
  /\ UNCHANGED call
  /\ UNCHANGED <<relayVars, kafkaVars, logVars>>

\* ------------------------------------------------------------------ specifications

vars == <<relayVars, kafkaVars, logVars, pureVars>>

Init == RelayInit /\ KafkaInit /\ LogInit /\ PureInit

RelayNext ==
  \/ Tick
  \/ \E p \in Invocations, lines \in Notifications, up \in BOOLEAN : HandlerStart(p, lines, up)
  \/ \E p \in Invocations, addr \in Addrs, outcome \in PipeOutcomes, reconnect \in BOOLEAN :
       StoreTrapInRedis(p, addr, outcome, reconnect)
  \/ \E p \in Invocations : FinishTrap(p)
  \/ \E id \in DOMAIN redis_hash : RedisExpire(id)

\* The Redis relay and its sink.
SpecRelay == Init /\ [][RelayNext]_vars

\* A handler process that is running takes its next step: every request it
\* makes of the sink returns or raises within socket_timeout
\* (socket_timeout and socket_connect_timeout, lines 108-109), and nothing else
\* in process_trap waits.
RelayFairness ==
  \A p \in Invocations :
    /\ WF_vars(\E addr \in Addrs, outcome \in PipeOutcomes, reconnect \in BOOLEAN :
                 StoreTrapInRedis(p, addr, outcome, reconnect))
    /\ WF_vars(FinishTrap(p))

\* The Redis relay and its sink, every running handler taking its steps.
SpecRelayFair == Init /\ [][RelayNext]_vars /\ RelayFairness

KafkaNext ==
  \/ \E k \in Invocations, lines \in Notifications, outcome \in SendOutcomes :
       KafkaRelay(k, lines, outcome)
  \/ \E body \in ForeignBodies : ForeignProduce(body)
  \/ \E kafka_up \in BOOLEAN : ConsumerStart(kafka_up)
  \/ \E outcome \in {"ok", "error"} : DbAttempt(outcome)
  \/ \E outcome \in StoreOutcomes : ConsumerMessage(outcome)
  \/ ConsumerPollError
  \/ ConsumerStop

\* The Kafka relay, the topic, the Kafka consumer and its store.
SpecKafka == Init /\ [][KafkaNext]_vars

LogNext ==
  \/ \E part \in FirstPart \cup {5} : WriterAppend(part)
  \/ WriterFinish
  \/ \E t \in Threads : BeginStep(t)
  \/ \E t \in Threads : ReadStep(t)
  \/ \E t \in Threads : SavePositionStep(t)
  \/ \E t \in Threads, outcome \in StoreOutcomes : StoreStep(t, outcome)
  \/ LogConsumerRestart

\* The log-file consumer, the writer of the trap log and the store.
SpecLog == Init /\ [][LogNext]_vars

\* The relays and consumers not started, one call about to be made.
InitPure == RelayInit /\ KafkaInit /\ LogInit /\ PureCallInit

PureNext == GetTrapSeverityReturn

\* get_trap_severity, called once with each of its arguments.
SpecPure == InitPure /\ [][PureNext]_vars

\* The relays and consumers not started, one call of the parser about to be made.
InitParser == RelayInit /\ KafkaInit /\ LogInit /\ ParserCallInit

ParserNext ==
  \/ ProcessTrapReturn
  \/ TrapNameReturn

\* process_trap and its trap-name derivation, called once with each input.
SpecParser == InitParser /\ [][ParserNext]_vars

\* The relays and consumers not started, one message about to be parsed.
InitDecoder == RelayInit /\ KafkaInit /\ LogInit /\ DecoderCallInit

DecoderNext == ParseTrapReturn

\* The consumer's decoder and _parse_trap, called once with each message.
SpecDecoder == InitDecoder /\ [][DecoderNext]_vars

\* ------------------------------------------------------------------ claims

Range(f) == {f[i] : i \in DOMAIN f}

\* The lines of a file of events that hold event eid.
LinesOf(log, eid) == {i \in 1..Len(log) : log[i].eid = eid}

\* C1: when a relay invocation on a non-empty notification has ended, whatever
\* the outcome of the sink write, its event is in the sink or in the fallback
\* file. (Stated of the Kafka relay.)
C1_EventInSinkOrFallback ==
  \A k \in Invocations :
    (kexit[k] # -1 /\ kstdin[k] # <<>>) =>
      (LinesOf(kafka_topic, k) # {} \/ LinesOf(kafka_fallback, k) # {})

\* C2: when the sink is unreachable during the relay of a valid event, the
\* fallback file gains exactly one line holding the event and the invocation
\* exits with status zero. (Stated of the Kafka relay: an event is in the
\* fallback file only when the sink was not reached.)
C2_FallbackThenSuccess ==
  \A k \in Invocations :
    LinesOf(kafka_fallback, k) # {} =>
      (Cardinality(LinesOf(kafka_fallback, k)) = 1 /\ kexit[k] = 0)

\* C3: no logical event has more than one row in the event table.
C3_AtMostOneRow ==
  \A e \in Invocations : Cardinality(LinesOf(table, e)) <= 1

\* C4: an event whose insert failed is in the failure log (and the events after
\* it in the batch are still handed to the Persister).
C4_FailedInsertInFailureLog ==
  \A e \in store_failed : LinesOf(failed_log, e) # {}

\* C5: no entry already handed to the Persister is handed to it again, in any
\* execution, consumer restarts and overlapping triggers included.
C5_NoRedelivery ==
  [][\A t \in Threads :
       (lpc[t] = "storing" /\ lqueue'[t] = Tail(lqueue[t]) /\ lrestarts' = lrestarts)
         => Head(lqueue[t]) \notin lhanded]_vars

Reverse(s) == [i \in 1..Len(s) |-> s[Len(s) + 1 - i]]

\* C6 as stated: no reachable sink state shows an event id in the index without
\* its event record and its statistics increments, nor an event record or a
\* statistics increment without its index entry.
C6_IndexRecordStatsTogether ==
  /\ \A i \in 1..Len(redis_list) : redis_list[i] \in DOMAIN redis_hash
  /\ \A id \in DOMAIN redis_hash : id \in Range(redis_list)
  /\ redis_stats.total_traps = Len(redis_list)

\* C6, amended: the sub-steps of one relay take effect in one step or not at
\* all. Every step either leaves index and statistics alone and writes no event
\* record (it may expire records), or writes one event record, puts its id at
\* the head of the index and adds one to the total, to the counter of its
\* severity and to the counter of its host. So every event record is of an id
\* that was pushed to the index, and the total counts the pushes.
C6_RelayTakesEffectTogether ==
  /\ [](/\ \A id \in DOMAIN redis_hash : id \in Range(pushed)
        /\ redis_stats.total_traps = Len(pushed))
  /\ [][\/ /\ redis_list' = redis_list
           /\ redis_stats' = redis_stats
           /\ pushed' = pushed
           /\ DOMAIN redis_hash' \subseteq DOMAIN redis_hash
           /\ \A k \in DOMAIN redis_hash' : redis_hash'[k] = redis_hash[k]
        \/ \E id \in DOMAIN redis_hash' :
             LET rec == redis_hash'[id]
                 Count(counters, field) ==
                   IF field \in DOMAIN counters THEN counters[field] ELSE 0
             IN /\ \A k \in (DOMAIN redis_hash) \ {id} :
                     k \in DOMAIN redis_hash' /\ redis_hash'[k] = redis_hash[k]
                /\ redis_list' # <<>> /\ Head(redis_list') = id
                /\ pushed' = Append(pushed, id)
                /\ redis_stats'.total_traps = redis_stats.total_traps + 1
                /\ Count(redis_stats'.severity, rec.severity)
                     = Count(redis_stats.severity, rec.severity) + 1
                /\ Count(redis_stats'.host, rec.host)
                     = Count(redis_stats.host, rec.host) + 1]_vars

\* C6 witness: two relays have taken effect, the index has been trimmed and an
\* event record is left whose id the index no longer holds.
C6_TrimmedRecordRemains ==
  /\ Len(pushed) > MaxListLength
  /\ \E id \in DOMAIN redis_hash : id \notin Range(redis_list)

C8_EventKeysUnique ==
  \A i, j \in 1..Len(pushed) : i # j => pushed[i] # pushed[j]

\* C9: an invocation with empty input is reported as a failure, exits non-zero
\* and attempts no write: neither the sink nor the fallback file changes.
C9_EmptyInputFails ==
  [][\A p \in Invocations, up \in BOOLEAN :
       HandlerStart(p, <<>>, up) =>
         /\ error_log' > error_log
         /\ rpc'[p] = "exited"
         /\ exit_code'[p] \notin {-1, 0}
         /\ UNCHANGED <<redis_hash, redis_list, redis_stats, pushed, fallback_log>>]_vars

\* C9 witness: an invocation has ended with status 1 and the error log has lines.
C9_EmptyInvocationExited ==
  \E p \in Invocations : rpc[p] = "exited" /\ exit_code[p] = 1 /\ error_log > 0

\* C10: rows enter the table oldest entry first: a new row is never of an entry
\* older than a row the table already has.
C10_RowsInArrivalOrder ==
  [][\A r \in DOMAIN ltable' :
       (IF r \in DOMAIN ltable THEN ltable'[r] > ltable[r] ELSE TRUE)
         => \A q \in DOMAIN ltable : q.entry <= r.entry]_vars

\* C11: the cursor advances past a batch whatever the outcome of its stores, so
\* an entry whose store failed is not handed to the Persister again.
C11_FailedEntryNotRetrievedAgain ==
  [][\A t \in Threads :
       (lpc[t] = "storing" /\ lqueue'[t] = Tail(lqueue[t]) /\ lrestarts' = lrestarts)
         => ~(Head(lqueue[t]) \in lhanded /\ Head(lqueue[t]) \notin DOMAIN ltable)]_vars

\* C12: at no time are two activations of the consumption step running at once.
C12_OneActivationAtATime ==
  Cardinality({t \in Threads : lpc[t] # "idle"}) <= 1

\* C13: a message whose body cannot be decoded is skipped and logged: no row,
\* no call of the Persister, and the loop is still running with the next
\* message as its next one.
C13_UndecodableSkippedAndLogged ==
  [][(/\ cpc = "running"
      /\ consumer_offset < Len(kafka_topic)
      /\ consumer_offset' = consumer_offset + 1
      /\ JsonLoads(kafka_topic[consumer_offset + 1].value).raised # "none")
     => /\ cpc' = "running"
        /\ processor_log' \in {"Invalid JSON in message", "Error processing message"}
        /\ UNCHANGED <<table, handed, failed_log, consumer_conn, db_engine, cexit>>]_vars

\* C13 witness: a relayed event that follows an undecodable message in the topic
\* has its row in the table.
C13_EventAfterUndecodableStored ==
  \E i, j \in 1..Len(kafka_topic) :
    /\ i < j
    /\ JsonLoads(kafka_topic[i].value).raised # "none"
    /\ LinesOf(table, kafka_topic[j].eid) # {}

\* C14: a poll that returns an error is logged and changes nothing else: the
\* loop is running before and after it, at the same offset, with its
\* connections, so the messages that follow are consumed by later polls.
C14_PollErrorLoggedLoopGoesOn ==
  [][poll_errors' # poll_errors
     => /\ cpc = "running" /\ cpc' = "running"
        /\ processor_log' = "Kafka error"
        /\ UNCHANGED <<consumer_offset, table, handed, failed_log, consumer_conn,
                       db_engine, cexit, restarts>>]_vars

\* C14 witness: in the run in which a poll returned an error, the message
\* that was next at that time has since been consumed and stored.
C14_ConsumedAfterPollError ==
  \E i \in 1..Len(poll_errors) :
    /\ poll_errors[i][1] = restarts
    /\ cpc = "running"
    /\ consumer_offset > poll_errors[i][2]
    /\ LinesOf(table, kafka_topic[poll_errors[i][2] + 1].eid) # {}

\* C15 as stated: at most max_retries attempts, each wait strictly longer than
\* the one before and growing exponentially (each wait the same multiple of the
\* one before); after the last failed attempt the process has exited with a
\* non-zero status.
C15_WaitsGrowExponentially ==
  /\ db_attempt <= max_retries
  /\ \A i \in 1..(Len(sleeps) - 1) : sleeps[i + 1] > sleeps[i]
  /\ \A i \in 2..(Len(sleeps) - 1) : sleeps[i + 1] * sleeps[i - 1] = sleeps[i] * sleeps[i]
  /\ (db_attempt = max_retries => cpc = "down" /\ cexit # 0 /\ cexit # -1)

\* C15, amended: at most max_retries attempts; the wait after the i-th failed
\* attempt is i times retry_delay, so each wait is strictly longer than the one
\* before, by the same amount; after the last failed attempt the process has
\* exited with status 1 and does not enter the loop; and while the loop runs no
\* attempt is made and no wait is taken.
C15_WaitsGrowLinearly ==
  /\ [](/\ db_attempt <= max_retries
        /\ Len(sleeps) = (IF db_attempt = max_retries THEN max_retries - 1 ELSE db_attempt)
        /\ \A i \in 1..Len(sleeps) : sleeps[i] = i * retry_delay
        /\ \A i \in 1..(Len(sleeps) - 1) : sleeps[i + 1] > sleeps[i]
        /\ (db_attempt = max_retries => cpc = "down" /\ cexit = 1)
        /\ (cpc = "running" => db_attempt = 0 /\ sleeps = <<>> /\ db_engine = "connected"))
  /\ [][cpc = "running" => UNCHANGED <<db_attempt, sleeps>>]_vars
  /\ [][(cpc = "db_init" /\ db_attempt = max_retries - 1 /\ db_attempt' = max_retries)
          => (cpc' = "down" /\ cexit' = 1 /\ db_engine' # "connected")]_vars

\* C15 witness: every attempt of a run has failed, max_retries - 1 waits were
\* taken and the process has exited with status 1.
C15_AllAttemptsFailed ==
  /\ db_attempt = max_retries
  /\ Len(sleeps) = max_retries - 1
  /\ cpc = "down"
  /\ cexit = 1

\* C16: when the consumer process has ended, by whichever path, the sink
\* connection and the store connection it opened have been released.
C16_ConnectionsReleasedAtExit ==
  (cpc = "down" /\ cexit # -1) => (consumer_conn # "open" /\ db_engine # "connected")

\* C17: every event whose store was begun is carried to completion: its row is
\* in the table, or its insert raised and the failure was handled.
C17_StoreBegunIsCompleted ==
  \A i \in 1..Len(handed) : LinesOf(table, handed[i]) # {} \/ handed[i] \in store_failed

\* C19: the severity of every persisted event is one of critical, major, minor,
\* info, clear (info when no indicator is present or its value is unrecognized).
C19_PersistedSeverityInEnumeration ==
  \A i \in 1..Len(table) :
    table[i].row.severity \in {S_critical, S_major, S_minor, S_info, S_clear}

\* The documented classification: the indicator, in lower case, to its severity.
DocumentedSeverity ==
  (<<"1">> :> S_critical) @@ (<<"2">> :> S_major) @@ (<<"3">> :> S_minor) @@
  (<<"4">> :> S_info) @@ (<<"5">> :> S_clear) @@
  (<<"c", "r", "i", "t", "i", "c", "a", "l">> :> S_critical) @@
  (<<"m", "a", "j", "o", "r">> :> S_major) @@ (<<"m", "i", "n", "o", "r">> :> S_minor) @@
  (<<"i", "n", "f", "o">> :> S_info) @@ (<<"c", "l", "e", "a", "r">> :> S_clear)

\* C20: severity classification is total and deterministic: a call with any
\* argument returns, and what it returns is fixed by the indicator alone: for
\* an indicator of the documented table in any letter case it is the table's
\* severity, and for any other string or the empty string it is info.
C20_ClassificationTotalAndDeterministic ==
  /\ (call # <<>> /\ returned = <<>>) => ENABLED GetTrapSeverityReturn
  /\ (call # <<>> /\ returned # <<>>) =>
       LET eagle_severity == call[1].args[2]
           result == returned[1]
       IN /\ \A ind \in DOMAIN DocumentedSeverity :
               eagle_severity \in CaseVariants(ind) => result = DocumentedSeverity[ind]
          /\ (\A ind \in DOMAIN DocumentedSeverity : eagle_severity \notin CaseVariants(ind))
               => result = S_info

\* C20 witness: an indicator spelt in mixed case was classified by its table
\* entry, with a trap_oid given.
C20_MixedCaseClassified ==
  /\ call # <<>>
  /\ call[1].args[1] # <<>>
  /\ call[1].args[2] = <<"M", "a", "J", "o", "R">>
  /\ returned = <<S_major>>

ProcessTrapReturned == call # <<>> /\ call[1].fn = "process_trap" /\ returned # <<>>

\* The varbinds of an event whose identifier holds the vendor severity marker,
\* in any letter case.
SeverityVarbinds(event) ==
  {i \in 1..Len(event.varbinds) : Contains(Lower(event.varbinds[i].oid), EAGLE_SEVERITY_MARKER)}

\* C21 as stated: a notification with a varbind whose identifier contains
\* eagleXgDsrAlarmSeverity (any case) and whose value is "2" yields an event of
\* severity major, whatever other varbinds are present and wherever they are.
C21_SeverityTwoYieldsMajor ==
  ProcessTrapReturned =>
    LET event == returned[1]
    IN (\E i \in SeverityVarbinds(event) : event.varbinds[i].value = <<"2">>)
         => event.trap.severity = S_major

\* C21, amended: the last varbind whose identifier contains the marker decides.
\* When its value is "2" the severity is major, whatever varbinds come before
\* or after it; a severity varbind before it, of whatever value, changes nothing.
C21_LastSeverityVarbindDecides ==
  ProcessTrapReturned =>
    LET event == returned[1]
        last == Greatest(SeverityVarbinds(event))
    IN /\ (SeverityVarbinds(event) # {} /\ event.varbinds[last].value = <<"2">>)
            => event.trap.severity = S_major
       /\ (SeverityVarbinds(event) # {} /\ event.varbinds[last].value = <<"3">>)
            => event.trap.severity = S_minor
       /\ SeverityVarbinds(event) = {} => event.trap.severity = S_info

\* C21 witness: a severity varbind of value "2" came after one of value "3" and
\* before another varbind, and the event's severity is major.
C21_TwoAfterThreeIsMajor ==
  /\ ProcessTrapReturned
  /\ call[1].args[1] = <<HostA, Transport1, LineSeverity3, LineSeverity2, LineUptime>>
  /\ returned[1].trap.severity = S_major

\* The line holds at least one run of whitespace.
HasWhitespace(line) == \E j \in 1..Len(line) : IsSpace(line[j])

\* The line holds a run of whitespace between two characters that are not
\* whitespace: an identifier, then a value.
HasIdentifierAndValue(line) ==
  \E i, j, k \in 1..Len(line) :
    i < j /\ j < k /\ ~IsSpace(line[i]) /\ IsSpace(line[j]) /\ ~IsSpace(line[k])

\* The data lines (lines 3 and later) of an input that satisfy Keep(_).
DataLinesThat(lines, Keep(_)) == {i \in 3..Len(lines) : Keep(lines[i])}

\* C22 as stated: for every input of two or more lines the number of varbinds
\* of the event is the number of data lines that hold at least one run of
\* whitespace, and a line without whitespace is no varbind.
C22_VarbindPerLineWithWhitespace ==
  (ProcessTrapReturned /\ Len(call[1].args[1]) >= 2) =>
    LET lines == call[1].args[1]
        event == returned[1]
    IN /\ Len(event.varbinds) = Cardinality(DataLinesThat(lines, HasWhitespace))
       /\ \A i \in 3..Len(lines) :
            ~HasWhitespace(lines[i]) =>
              \A n \in 1..Len(event.varbinds) : event.varbinds[n].oid # lines[i]

\* C22, amended: the number of varbinds is the number of data lines that hold an
\* identifier, a run of whitespace and a value; the n-th varbind is of the n-th
\* such line, its identifier the line's first word; every other line (without
\* whitespace, or with whitespace only before or after its one word) is dropped.
C22_VarbindPerLineWithValue ==
  (ProcessTrapReturned /\ Len(call[1].args[1]) >= 2) =>
    LET lines == call[1].args[1]
        event == returned[1]
        kept == DataLinesThat(lines, HasIdentifierAndValue)
        nth(n) == CHOOSE i \in kept : Cardinality({j \in kept : j <= i}) = n
    IN /\ Len(event.varbinds) = Cardinality(kept)
       /\ event.trap.varbind_count = Cardinality(kept)
       /\ \A n \in 1..Len(event.varbinds) :
            /\ event.varbinds[n].oid = SplitWs(lines[nth(n)])[1]
            /\ event.varbinds[n].value # <<>>
            /\ ~IsSpace(event.varbinds[n].value[Len(event.varbinds[n].value)])
       /\ \A i \in 3..Len(lines) :
            ~HasWhitespace(lines[i]) =>
              \A n \in 1..Len(event.varbinds) : event.varbinds[n].oid # lines[i]

\* C22 witness: of three data lines, one without whitespace, one with only a
\* trailing blank and one with identifier and value, the last alone is a varbind.
C22_OneLineOfThreeKept ==
  /\ ProcessTrapReturned
  /\ call[1].args[1] = <<HostA, Transport1, LineNoSpace, LineTrailingSpace, LineLeadingSpace>>
  /\ Len(returned[1].varbinds) = 1
  /\ returned[1].varbinds[1].value = <<"7">>

\* The trap-identity identifier, in its symbolic and in its numeric form.
TrapIdentityIdentifiers ==
  { <<"S", "N", "M", "P", "v", "2", "-", "M", "I", "B", ":", ":", "s", "n", "m", "p", "T", "r", "a", "p", "O", "I", "D", ".", "0">>,
    <<".", "1", ".", "3", ".", "6", ".", "1", ".", "6", ".", "3", ".", "1", ".", "1", ".", "4", ".", "1", ".", "0">> }

\* The varbinds of an event whose identifier is the trap-identity identifier.
IdentityVarbinds(event) ==
  {i \in 1..Len(event.varbinds) : event.varbinds[i].oid \in TrapIdentityIdentifiers}

\* C23 as stated: in every produced event trap_oid and trap_name are both
\* non-empty exactly when some data line's identifier is the trap-identity
\* identifier, and otherwise both are empty.
C23_OidAndNameSetTogether ==
  ProcessTrapReturned =>
    LET event == returned[1]
    IN /\ (event.trap.oid # <<>> /\ event.trap.name # <<>>) <=> IdentityVarbinds(event) # {}
       /\ IdentityVarbinds(event) = {} => (event.trap.oid = <<>> /\ event.trap.name = <<>>)

\* C23, amended: trap_oid is non-empty exactly when some data line's identifier
\* is the trap-identity identifier; it is then the value of the last such line
\* and trap_name is what the derivation makes of it, which is empty when the
\* value is nothing but a namespace prefix or ".0". Otherwise both are empty.
C23_OidSetNameDerived ==
  ProcessTrapReturned =>
    LET event == returned[1]
        last == Greatest(IdentityVarbinds(event))
    IN /\ event.trap.oid # <<>> <=> IdentityVarbinds(event) # {}
       /\ IdentityVarbinds(event) # {} =>
            /\ event.trap.oid = event.varbinds[last].value
            /\ event.trap.name = TrapName(event.trap.oid)
       /\ IdentityVarbinds(event) = {} => (event.trap.oid = <<>> /\ event.trap.name = <<>>)
       /\ event.trap.name # <<>> => event.trap.oid # <<>>

\* C23 witness: the trap identity was given in its numeric form with a value
\* that is only a namespace prefix: trap_oid is set and trap_name is empty.
C23_OidSetNameEmpty ==
  /\ ProcessTrapReturned
  /\ call[1].args[1] = <<HostA, Transport1, LineTrapOidBare, LineTrapOidNumeric>>
  /\ returned[1].trap.oid = <<"M", "I", "B", ":", ":">>
  /\ returned[1].trap.name = <<>>

\* C24: the trap-name derivation (strip any namespace prefix, then strip a
\* trailing ".0") is idempotent: applied to its own result it returns that
\* same result, for every trap identifier value.
C24_TrapNameIdempotent ==
  (call # <<>> /\ call[1].fn = "trap_name" /\ returned # <<>>) =>
    TrapName(returned[1]) = returned[1]

\* A message was decoded and _parse_trap has returned.
ParseTrapReturned == call # <<>> /\ call[1].fn = "_parse_trap" /\ returned # <<>>

\* The identifier of a data line: its first word.
LineIdentifier(line) == SplitOnce(line)[1]

\* The value of a data line: what follows the whitespace after its identifier.
LineValue(line) == IF Len(SplitOnce(line)) = 2 THEN SplitOnce(line)[2] ELSE <<>>

\* C25: an event serialized by the ingest side and decoded by the consumption
\* side has the same timestamp and host, and the same varbinds in the same
\* order with the same identifiers and values. (The Kafka relay's event carries
\* no severity.)
C25_RoundTripKeepsFields ==
  ParseTrapReturned =>
    LET event == call[1].args[1].doc[1]
        decoded == returned[1]
    IN /\ decoded.timestamp.at = event.timestamp.at
       /\ decoded.hostname = event.host
       /\ Len(decoded.variable_bindings) = Len(event.oids)
       /\ \A i \in 1..Len(decoded.variable_bindings) :
            i <= Len(event.oids) =>
              /\ decoded.variable_bindings[i].oid = LineIdentifier(event.oids[i])
              /\ decoded.variable_bindings[i].value = LineValue(event.oids[i])

\* The value of the first flattened varbind whose resolved name holds marker in
\* any letter case: <<value>>, or <<>> when there is none.
FirstMatch(varbinds, marker) ==
  LET at == {i \in 1..Len(varbinds) : Contains(Lower(varbinds[i].resolved_name), marker)}
  IN IF at = {} THEN <<>> ELSE <<varbinds[Least(at)].value>>

\* C26: each of alarm_number, alarm_text, alarm_server and alarm_instance is the
\* value of the first varbind, in list order, whose resolved name contains the
\* field's marker; a later match does not change it; without a match it is null.
C26_FirstMatchWins ==
  ParseTrapReturned =>
    LET flat == returned[1]
    IN /\ flat.alarm_number = FirstMatch(flat.variable_bindings, M_alarmnumber)
       /\ flat.alarm_text = FirstMatch(flat.variable_bindings, M_alarmtext)
       /\ flat.alarm_server = FirstMatch(flat.variable_bindings, M_dsrserverhostname)
       /\ flat.alarm_instance = FirstMatch(flat.variable_bindings, M_dsralarminstance)

\* C27: the flattened varbind list has one entry for every varbind of the input
\* event, in the same order, with identifier and value unchanged and only
\* resolved_name added.
C27_FlattenerKeepsEveryVarbind ==
  ParseTrapReturned =>
    LET oids == returned[1].raw_data.oids
        flattened == returned[1].variable_bindings
    IN /\ Len(flattened) = Len(oids)
       /\ \A i \in 1..Len(flattened) :
            i <= Len(oids) =>
              /\ flattened[i].oid = LineIdentifier(oids[i])
              /\ flattened[i].value = LineValue(oids[i])
              /\ DOMAIN flattened[i] = {"oid", "value", "resolved_name"}

\* C28: the source_ip persisted for an event is what the transport line gives:
\* the bracketed address before the arrow, else the first bare dotted quad,
\* else the empty string.
C28_PersistedSourceIpFromTransport ==
  ParseTrapReturned =>
    returned[1].source_ip = parse_transport_info(returned[1].transport)

RECURSIVE SumOfCounters(_)
\* The sum of the counters of a counter family.
SumOfCounters(counters) ==
  IF DOMAIN counters = {} THEN 0
  ELSE LET field == CHOOSE f \in DOMAIN counters : TRUE
       IN counters[field] + SumOfCounters([f \in (DOMAIN counters) \ {field} |-> counters[f]])

\* No counter of the family is lower or gone after the step.
NotDecreased(before, after) ==
  \A field \in DOMAIN before : field \in DOMAIN after /\ after[field] >= before[field]

C30_FallbackOnlyIfNotInSink ==
  [][\A p \in Invocations :
       (rpc[p] = "stored" /\ rpc'[p] = "exited" /\ fallback_log' # fallback_log)
         => ~applied[p]]_vars

\* The row that one whole entry of the trap log parses to: its lines up to the
\* separator, given to parse_trap_entry.
WholeEntryRow(e) ==
  parse_trap_entry(SubSeq(EntryLines(e), 1, Len(EntryLines(e)) - 1))[1]

\* Within one run of the process the saved read position does not go down.
C31_PositionNeverDecreases ==
  [][(last_position # <<>> /\ last_position' # <<>> /\ lrestarts' = lrestarts)
       => last_position'[1] >= last_position[1]]_vars

\* Every row of the table is what a whole entry parses to.
C31_RowsAreWholeEntries ==
  \A r \in DOMAIN ltable : r = WholeEntryRow(r.entry)

\* In a process that was never restarted no entry has more than one row.
C31_OneRowPerEntry ==
  lrestarts = 0 =>
    \A r \in DOMAIN ltable : r = WholeEntryRow(r.entry) => ltable[r] <= 1

\* C31: in the log-file consumer the saved read position never decreases, and
\* every entry appended to the trap log is parsed as one whole entry and stored
\* as one row, also when a read happens while an entry is only partly written
\* and when the main loop and the observer thread run process_trap_log at
\* overlapping times.
C31_PositionMonotoneEntriesWhole ==
  /\ C31_PositionNeverDecreases
  /\ [](C31_RowsAreWholeEntries /\ C31_OneRowPerEntry)

====
